---------------------------- MODULE Spec2Model ----------------------------
(***************************************************************************)
(* A model of agent-loops (src/src/lib.rs, src/src/main.rs).               *)
(*                                                                         *)
(* Strings are sequences of Unicode code points; their length in bytes is  *)
(* the sum of the UTF-8 widths of their characters, as in Rust's           *)
(* String::len, and a byte-range slice that does not end on a character    *)
(* boundary panics.  Bytes are the integers 0..255.  An Option<T> is a     *)
(* sequence of at most one element: <<>> is None and <<v>> is Some(v).     *)
(***************************************************************************)
EXTENDS Integers, Sequences, FiniteSets, TLC

VARIABLES
    \* ---- orchestrate (lib.rs 476-522) ----
    prompts,        \* &[String]: the prompt list passed to orchestrate (keys of PromptText)
    loops,          \* usize: the loop count passed to orchestrate
    loop_idx,       \* the outer for-loop's index
    task_idx,       \* the inner for-loop's index
    orch_pc,        \* "idle" | "running" | "done" | "panicked"
    results,        \* Vec<(usize, usize, bool)>
    invocations,    \* the prompts the runner was called with, in call order
    last_outcome,   \* what the runner returned last: "none" | "OkTrue" | "OkFalse" | "Err"
    task_header,    \* the process-wide TASK_HEADER slot: Option<Vec<String>>
    \* ---- the sanitizer alone: consume_byte (lib.rs 358-390) ----
    ansi_state,     \* AnsiParseState: the parser state after the bytes fed so far
    prev_state,     \* the parser state before the last byte was fed
    last_byte,      \* Option<u8>: the last byte fed
    emitted,        \* the bytes the last consume_byte call pushed to `out`
    fed,            \* every byte fed so far, in order
    sanitized,      \* every byte pushed to `out` so far, in order
    \* ---- PinnedOutputRenderer and the terminal (lib.rs 302-434) ----
    renderer,       \* Option<PinnedOutputRenderer>: [header_lines, output_lines,
                    \*   current_line, ansi_state]; None before new and after drop
    cursor,         \* what the last cursor sequence written asked for:
                    \*   "visible" | "hidden"
    frame,          \* the lines the last redraw wrote, top to bottom
    term_size,      \* Option: the [rows, cols] the last redraw read
    last_op,        \* the last renderer call: [op, rendered (it redrew)]
    pushed,         \* every byte passed to push_chunk so far, in order
    completed,      \* every line ever pushed onto output_lines, in order
    \* ---- run_command_with_forwarded_output (lib.rs 160-241) ----
    run_pc,         \* "start" | "consuming" | "await_stdout" | "await_stderr"
                    \*   | "wait_child" | "returned"
    run_result,     \* Option<io::Result<ExitStatus>>: [ok, what]
    pinned_header,  \* the pinned_header argument: Option<Vec<String>>
    is_terminal,    \* io::stdout().is_terminal()
    child_status,   \* "none" | "running" | "exit_zero" | "exit_nonzero"
    child_open,     \* per stream: the child still holds the pipe's write end
    child_writes,   \* how many chunks the child has written
    pipe,           \* per stream: the chunks written and not yet read
    reader,         \* per stream, the reader task: "none" | "running" | "ok" | "err"
    chan,           \* the unbounded channel: a queue of [stream, chunk]
    rx_open,        \* the receiver `rx` has not been dropped
    awaited,        \* the streams whose reader task has been awaited
    real_out,       \* the bytes written to the real stdout by the raw path
    real_err,       \* the bytes written to the real stderr by the raw path
    read_log,       \* per stream: the chunks its reader has read, in order
    sent,           \* every message sent on the channel, in order
    applied,        \* every message the consumer took and applied, in order
    loop_exit,      \* how the consumer loop ended: "none" | "closed" | "error"
    hid_cursor,     \* the hide-cursor sequence was written in this run
    \* ---- one call of a pure function (truncate_display, fit_terminal_line) ----
    arg_s,          \* the string argument
    arg_n,          \* the usize argument
    ret,            \* Option: what the call returned
    \* ---- main (main.rs 20-91) ----
    main_pc,        \* "none" | "start" | "orchestrating" | "exited"
    exit_code,      \* "none" | "SUCCESS" | "FAILURE" | "PANIC" (the process
                    \*   ended by a panic: exit status 101)
    message         \* what main printed last: [kind, n]

orch_vars == <<prompts, loops, loop_idx, task_idx, orch_pc, results,
               invocations, last_outcome, task_header>>

san_vars == <<ansi_state, prev_state, last_byte, emitted, fed, sanitized>>

rend_vars == <<renderer, cursor, frame, term_size, last_op, pushed, completed>>

run_vars == <<run_pc, run_result, pinned_header, is_terminal, child_status,
              child_open, child_writes, pipe, reader, chan, rx_open, awaited,
              real_out, real_err, read_log, sent, applied, loop_exit, hid_cursor>>

pure_vars == <<arg_s, arg_n, ret>>

main_vars == <<main_pc, exit_code, message>>

vars == <<orch_vars, san_vars, rend_vars, run_vars, pure_vars, main_vars>>

\* What the steps of one part of the program leave alone.
not_orch_vars == <<san_vars, rend_vars, run_vars, pure_vars, main_vars>>
not_san_vars == <<orch_vars, rend_vars, run_vars, pure_vars, main_vars>>
not_rend_vars == <<orch_vars, san_vars, run_vars, pure_vars, main_vars>>
not_run_vars == <<orch_vars, san_vars, pure_vars, main_vars>>
not_pure_vars == <<orch_vars, san_vars, rend_vars, run_vars, main_vars>>
not_main_vars == <<san_vars, rend_vars, run_vars, pure_vars>>

---------------------------------------------------------------------------
(* Bounds of the model.                                                    *)

MaxTasks == 2
MaxLoops == 2
\* The longest byte sequence fed to the sanitizer (the worked examples of
\* SanitizerExamples are fed in full whatever their length).
MaxFed == 5
\* The most bytes passed to one renderer's push_chunk, over all its chunks.
MaxPushed == 4
\* How far below MAX_RENDERED_OUTPUT_LINES the fullest runs of the scroll
\* buffer start.
ScrollSlack == 2
\* The most chunks the child writes to its two streams in one run.
MaxChildChunks == 2
\* The longest string, in characters, given to a pure function on its own.
MaxTextLen == 5
\* The largest limit (max_len, max_cols) given to a pure function on its own.
MaxLimit == 6

---------------------------------------------------------------------------
(* Program constants.                                                      *)

MAX_DISPLAY_LEN == 60
MAX_CURRENT_TASK_LEN == 120
MAX_RENDERED_OUTPUT_LINES == 4000

---------------------------------------------------------------------------
(* Strings.                                                                *)

\* The UTF-8 width of a code point.
Utf8Len(c) == IF c < 128 THEN 1 ELSE IF c < 2048 THEN 2 ELSE IF c < 65536 THEN 3 ELSE 4

\* String::len: the length in bytes, the sum of the characters' widths.
ByteLen(s) ==
    Len(s) + Cardinality({i \in 1..Len(s) : s[i] >= 128})
           + Cardinality({i \in 1..Len(s) : s[i] >= 2048})
           + Cardinality({i \in 1..Len(s) : s[i] >= 65536})

\* The largest i in lo..hi such that the first i characters of s fill at most
\* k bytes (the first lo characters do).
RECURSIVE PrefixWithin(_, _, _, _)
PrefixWithin(s, k, lo, hi) ==
    IF lo = hi THEN lo
    ELSE LET mid == (lo + hi + 1) \div 2
         IN  IF ByteLen(SubSeq(s, 1, mid)) <= k
             THEN PrefixWithin(s, k, mid, hi)
             ELSE PrefixWithin(s, k, lo, mid - 1)

\* The number of leading characters of s that fill exactly k bytes, or -1
\* when byte offset k falls inside a character (str::is_char_boundary fails).
CharsInBytes(s, k) ==
    LET i == PrefixWithin(s, k, 0, Len(s))
    IN  IF ByteLen(SubSeq(s, 1, i)) = k THEN i ELSE -1

Repeat(c, n) == [i \in 1..n |-> c]

ELLIPSIS == <<46, 46, 46>>
BANNER == <<61, 61, 61, 32, 65, 103, 101, 110, 116, 32, 76, 111, 111, 112, 115, 32, 61, 61, 61>>
SEPARATOR == Repeat(45, 40)
CURRENT_TASK == <<67, 117, 114, 114, 101, 110, 116, 32, 116, 97, 115, 107, 58, 32>>
RUN_LABEL == <<82, 117, 110, 32>>
LOOP_LABEL == <<32, 124, 32, 76, 111, 111, 112, 32>>
TASK_LABEL == <<32, 124, 32, 84, 97, 115, 107, 32>>
SLASH == <<47>>

\* format!("{n}") of a usize: its decimal digits.
RECURSIVE Decimal(_)
Decimal(n) == IF n < 10 THEN <<48 + n>> ELSE Decimal(n \div 10) \o <<48 + (n % 10)>>

SaturatingSub(a, b) == IF a >= b THEN a - b ELSE 0

\* A truncation that keeps max_len bytes before the ellipsis.
Mutant_TruncateSlicesAtMaxLen(s, max_len) ==
    IF ByteLen(s) <= max_len
    THEN [panic |-> FALSE, val |-> s]
    ELSE LET n == CharsInBytes(s, max_len)
         IN  IF n < 0
             THEN [panic |-> TRUE, val |-> <<>>]
             ELSE [panic |-> FALSE, val |-> SubSeq(s, 1, n) \o ELLIPSIS]

\* truncate_display: [panic |-> the slice panicked, val |-> the returned string].
truncate_display(s, max_len) ==
    IF ByteLen(s) <= max_len
    THEN [panic |-> FALSE, val |-> s]
    ELSE LET n == CharsInBytes(s, SaturatingSub(max_len, 3))
         IN  IF n < 0
             THEN [panic |-> TRUE, val |-> <<>>]
             ELSE [panic |-> FALSE, val |-> SubSeq(s, 1, n) \o ELLIPSIS]

\* task_header_lines: the 4-line header of one run, or a panic.
task_header_lines(run_idx, total_runs, l_idx, n_loops, t_idx, task_total, prompt) ==
    LET t == truncate_display(prompt, MAX_CURRENT_TASK_LEN)
    IN  [panic |-> t.panic,
         val   |-> << BANNER,
                      RUN_LABEL \o Decimal(run_idx) \o SLASH \o Decimal(total_runs)
                        \o LOOP_LABEL \o Decimal(l_idx + 1) \o SLASH \o Decimal(n_loops)
                        \o TASK_LABEL \o Decimal(t_idx + 1) \o SLASH \o Decimal(task_total),
                      CURRENT_TASK \o t.val,
                      SEPARATOR >>]

---------------------------------------------------------------------------
(* The prompts the model draws from, each named by a key: a short one, one *)
(* longer than MAX_CURRENT_TASK_LEN made of ASCII, and one longer than it  *)
(* whose byte MAX_CURRENT_TASK_LEN - 3 falls inside a two-byte character.  *)
(* The state holds the keys; PromptText gives the String the code sees.    *)

PromptPool == {"short", "long_ascii", "long_split"}

PromptText(p) ==
    CASE p = "short"      -> <<80, 49>>
      [] p = "long_ascii" -> Repeat(97, MAX_CURRENT_TASK_LEN + 1)
      [] p = "long_split" -> Repeat(97, MAX_CURRENT_TASK_LEN - 4) \o <<233>> \o Repeat(98, 4)

RECURSIVE SeqsUpTo(_, _)
SeqsUpTo(S, n) ==
    IF n = 0 THEN {<<>>}
    ELSE LET shorter == SeqsUpTo(S, n - 1)
         IN  shorter \cup {Append(s, x) : s \in {t \in shorter : Len(t) = n - 1}, x \in S}

---------------------------------------------------------------------------
(* The header slot (lib.rs 46-93).                                         *)

\* set_current_task_header: the slot's value after the call.
set_current_task_header(lines) == lines

\* CurrentTaskHeaderGuard::new.
CurrentTaskHeaderGuard_new(lines) == set_current_task_header(<<lines>>)

\* A guard whose drop leaves the slot as it is.
Mutant_GuardDropKeepsHeader == task_header

\* impl Drop for CurrentTaskHeaderGuard.
CurrentTaskHeaderGuard_drop == set_current_task_header(<<>>)

---------------------------------------------------------------------------
(* orchestrate (lib.rs 476-522).  The function suspends only while the     *)
(* runner's future is awaited, so one iteration is two steps: everything   *)
(* up to the call of the runner, and everything from its return on.        *)

\* orchestrate has not been called.
IdleOrch ==
    /\ prompts = <<>>
    /\ loops = 0
    /\ loop_idx = 0
    /\ task_idx = 0
    /\ orch_pc = "idle"
    /\ results = <<>>
    /\ invocations = <<>>
    /\ last_outcome = "none"
    /\ task_header = <<>>

\* A call of orchestrate with any prompt list and loop count within the bounds.
OrchEntry ==
    /\ prompts \in SeqsUpTo(PromptPool, MaxTasks)
    /\ loops \in 0..MaxLoops
    /\ loop_idx = 0
    /\ task_idx = 0
    /\ orch_pc = "idle"
    /\ results = <<>>
    /\ invocations = <<>>
    /\ last_outcome = "none"
    /\ task_header = <<>>

\* The for loops have another (loop_idx, task_idx) pair to run.
MorePairs == loop_idx < loops /\ task_idx < Len(prompts)

\* The 1-based index of the run about to start (line 490).
RunIdx == loop_idx * Len(prompts) + task_idx + 1

\* Lines 489-505: build the header, publish it, call the runner.
BeginRun ==
    /\ orch_pc = "idle"
    /\ MorePairs
    /\ LET prompt == prompts[task_idx + 1]
           header == task_header_lines(RunIdx, Len(prompts) * loops, loop_idx, loops,
                                       task_idx, Len(prompts), PromptText(prompt))
       IN  IF header.panic
           THEN /\ orch_pc' = "panicked"
                /\ UNCHANGED <<task_header, invocations>>
           ELSE /\ orch_pc' = "running"
                /\ task_header' = CurrentTaskHeaderGuard_new(header.val)
                /\ invocations' = Append(invocations, prompt)
    /\ UNCHANGED <<prompts, loops, loop_idx, task_idx, results, last_outcome>>
    /\ UNCHANGED not_orch_vars

\* The success value of lines 505-511.
RunSuccess(outcome) == outcome = "OkTrue"

\* Lines 505-517: the runner's future completes with `outcome`.
RunnerReturns(outcome) ==
    /\ orch_pc = "running"
    /\ last_outcome' = outcome
    /\ task_header' = CurrentTaskHeaderGuard_drop
    /\ results' = Append(results, <<loop_idx, task_idx, RunSuccess(outcome)>>)
    /\ IF task_idx + 1 < Len(prompts)
       THEN /\ task_idx' = task_idx + 1
            /\ loop_idx' = loop_idx
       ELSE /\ task_idx' = 0
            /\ loop_idx' = loop_idx + 1
    /\ orch_pc' = "idle"
    /\ UNCHANGED <<prompts, loops, invocations>>
    /\ UNCHANGED not_orch_vars

\* Lines 520-521: both loops are exhausted; the results are returned.
OrchReturn ==
    /\ orch_pc = "idle"
    /\ ~MorePairs
    /\ orch_pc' = "done"
    /\ UNCHANGED <<prompts, loops, loop_idx, task_idx, results, invocations,
                   last_outcome, task_header>>
    /\ UNCHANGED not_orch_vars

NextOrch ==
    \/ BeginRun
    \/ \E outcome \in {"OkTrue", "OkFalse", "Err"} : RunnerReturns(outcome)
    \/ OrchReturn

---------------------------------------------------------------------------
(* main (main.rs 20-91): the checks before orchestrate, the call, and the  *)
(* exit code computed from the results.                                    *)

\* main is not running.
IdleMain ==
    /\ main_pc = "none"
    /\ exit_code = "none"
    /\ message = [kind |-> "none", n |-> 0]

\* main has parsed its arguments and loaded its prompts (lines 20-45):
\* any prompt list and loop count within the bounds; orchestrate is not yet
\* called.
MainEntry ==
    /\ main_pc = "start"
    /\ exit_code = "none"
    /\ message = [kind |-> "none", n |-> 0]
    /\ prompts \in SeqsUpTo(PromptPool, MaxTasks)
    /\ loops \in 0..MaxLoops
    /\ loop_idx = 0
    /\ task_idx = 0
    /\ orch_pc = "not_called"
    /\ results = <<>>
    /\ invocations = <<>>
    /\ last_outcome = "none"
    /\ task_header = <<>>

\* Lines 47-55: a loop count of 0, then an empty prompt list, prints its
\* nothing-to-do message and returns ExitCode::SUCCESS.
MainNothingToDo ==
    /\ main_pc = "start"
    /\ loops = 0 \/ prompts = <<>>
    /\ main_pc' = "exited"
    /\ exit_code' = "SUCCESS"
    /\ message' = [kind |-> IF loops = 0 THEN "loops_zero" ELSE "no_prompts", n |-> 0]
    /\ UNCHANGED orch_vars
    /\ UNCHANGED not_main_vars

\* Lines 57-67: the working directory given does not exist or is not a
\* directory; main reports it and returns ExitCode::FAILURE.
MainBadWorkDir ==
    /\ main_pc = "start"
    /\ loops # 0 /\ prompts # <<>>
    /\ main_pc' = "exited"
    /\ exit_code' = "FAILURE"
    /\ message' = [kind |-> "bad_work_dir", n |-> 0]
    /\ UNCHANGED orch_vars
    /\ UNCHANGED not_main_vars

\* Lines 69-82: main prints the plan and calls orchestrate.
MainCallsOrchestrate ==
    /\ main_pc = "start"
    /\ loops # 0 /\ prompts # <<>>
    /\ main_pc' = "orchestrating"
    /\ orch_pc' = "idle"
    /\ UNCHANGED <<exit_code, message>>
    /\ UNCHANGED <<prompts, loops, loop_idx, task_idx, results, invocations,
                   last_outcome, task_header>>
    /\ UNCHANGED not_main_vars

\* Line 84: the results whose success is false.
failures(res) == {i \in 1..Len(res) : ~res[i][3]}

\* Lines 85-91: success when there is no failure.
ExitCodeOf(res) == IF failures(res) = {} THEN "SUCCESS" ELSE "FAILURE"

\* Lines 84-91: orchestrate has returned its results; main prints the
\* outcome and returns the exit code.
MainExit ==
    /\ main_pc = "orchestrating"
    /\ orch_pc = "done"
    /\ main_pc' = "exited"
    /\ exit_code' = ExitCodeOf(results)
    /\ message' = IF failures(results) = {}
                  THEN [kind |-> "all_ok", n |-> 0]
                  ELSE [kind |-> "failed", n |-> Cardinality(failures(results))]
    /\ UNCHANGED orch_vars
    /\ UNCHANGED not_main_vars

\* orchestrate panicked: the panic unwinds through main and the process ends
\* with the panic's exit status, printing neither outcome message.
MainPanics ==
    /\ main_pc = "orchestrating"
    /\ orch_pc = "panicked"
    /\ main_pc' = "exited"
    /\ exit_code' = "PANIC"
    /\ message' = [kind |-> "panic", n |-> 0]
    /\ UNCHANGED orch_vars
    /\ UNCHANGED not_main_vars

NextMain ==
    \/ MainNothingToDo
    \/ MainBadWorkDir
    \/ MainCallsOrchestrate
    \/ BeginRun
    \/ \E outcome \in {"OkTrue", "OkFalse", "Err"} : RunnerReturns(outcome)
    \/ OrchReturn
    \/ MainExit
    \/ MainPanics

---------------------------------------------------------------------------
(* The sanitizer: PinnedOutputRenderer::consume_byte (lib.rs 358-390).     *)

AnsiParseState == {"Normal", "Esc", "Csi", "Osc", "OscEsc"}

Byte == 0..255

ESC == 27
BEL == 7
CR == 13
LF == 10
TAB == 9
DEL == 127
LBRACKET == 91
RBRACKET == 93
BACKSLASH == 92

\* The arm for AnsiParseState::Normal (lines 360-366).
consume_normal(b) ==
    IF b = ESC THEN [state |-> "Esc", out |-> <<>>]
    ELSE IF b = CR THEN [state |-> "Normal", out |-> <<LF>>]
    ELSE IF b \in {LF, TAB} THEN [state |-> "Normal", out |-> <<b>>]
    ELSE IF b \in 32..126 \/ b \in 128..255 THEN [state |-> "Normal", out |-> <<b>>]
    ELSE [state |-> "Normal", out |-> <<>>]

\* The arm for AnsiParseState::Esc (lines 367-371).
consume_esc(b) ==
    IF b = LBRACKET THEN [state |-> "Csi", out |-> <<>>]
    ELSE IF b = RBRACKET THEN [state |-> "Osc", out |-> <<>>]
    ELSE [state |-> "Normal", out |-> <<>>]

\* The arm for AnsiParseState::Csi (lines 372-376).
consume_csi(b) ==
    IF b \in 64..126 THEN [state |-> "Normal", out |-> <<>>]
    ELSE [state |-> "Csi", out |-> <<>>]

\* The arm for AnsiParseState::Osc (lines 377-381).
consume_osc(b) ==
    IF b = BEL THEN [state |-> "Normal", out |-> <<>>]
    ELSE IF b = ESC THEN [state |-> "OscEsc", out |-> <<>>]
    ELSE [state |-> "Osc", out |-> <<>>]

\* The arm for AnsiParseState::OscEsc (lines 382-388).
consume_osc_esc(b) ==
    IF b = BACKSLASH THEN [state |-> "Normal", out |-> <<>>]
    ELSE [state |-> "Osc", out |-> <<>>]

\* A sanitizer whose printable range ends at 0x7f instead of 0x7e.
Mutant_ConsumeBytePassesDel(st, b) ==
    CASE st = "Normal" -> IF b = DEL THEN [state |-> "Normal", out |-> <<b>>]
                          ELSE consume_normal(b)
      [] st = "Esc"    -> consume_esc(b)
      [] st = "Csi"    -> consume_csi(b)
      [] st = "Osc"    -> consume_osc(b)
      [] st = "OscEsc" -> consume_osc_esc(b)

\* A sanitizer that passes a carriage return through as it is.
Mutant_ConsumeByteKeepsCr(st, b) ==
    CASE st = "Normal" -> IF b = CR THEN [state |-> "Normal", out |-> <<b>>]
                          ELSE consume_normal(b)
      [] st = "Esc"    -> consume_esc(b)
      [] st = "Csi"    -> consume_csi(b)
      [] st = "Osc"    -> consume_osc(b)
      [] st = "OscEsc" -> consume_osc_esc(b)

\* A sanitizer whose CSI sequences end only at an ASCII letter.
Mutant_ConsumeByteCsiEndsAtLetter(st, b) ==
    CASE st = "Normal" -> consume_normal(b)
      [] st = "Esc"    -> consume_esc(b)
      [] st = "Csi"    -> IF b \in 65..90 \/ b \in 97..122
                          THEN [state |-> "Normal", out |-> <<>>]
                          ELSE [state |-> "Csi", out |-> <<>>]
      [] st = "Osc"    -> consume_osc(b)
      [] st = "OscEsc" -> consume_osc_esc(b)

\* A sanitizer in which any byte after an ESC inside an OSC payload ends the
\* sequence.
Mutant_ConsumeByteOscEscAlwaysEnds(st, b) ==
    CASE st = "Normal" -> consume_normal(b)
      [] st = "Esc"    -> consume_esc(b)
      [] st = "Csi"    -> consume_csi(b)
      [] st = "Osc"    -> consume_osc(b)
      [] st = "OscEsc" -> [state |-> "Normal", out |-> <<>>]

\* A sanitizer that gives up an unterminated CSI or OSC sequence at a
\* newline, which it emits.
Mutant_ConsumeByteNewlineEndsSequence(st, b) ==
    CASE st = "Normal" -> consume_normal(b)
      [] st = "Esc"    -> consume_esc(b)
      [] st = "Csi"    -> IF b = LF THEN [state |-> "Normal", out |-> <<LF>>]
                          ELSE consume_csi(b)
      [] st = "Osc"    -> IF b = LF THEN [state |-> "Normal", out |-> <<LF>>]
                          ELSE consume_osc(b)
      [] st = "OscEsc" -> consume_osc_esc(b)

\* consume_byte: the parser state after byte b, and the bytes pushed to `out`.
consume_byte(st, b) ==
    CASE st = "Normal" -> consume_normal(b)
      [] st = "Esc"    -> consume_esc(b)
      [] st = "Csi"    -> consume_csi(b)
      [] st = "Osc"    -> consume_osc(b)
      [] st = "OscEsc" -> consume_osc_esc(b)

IsPrefix(s, t) == Len(s) <= Len(t) /\ SubSeq(t, 1, Len(s)) = s

\* The bytes the bounded runs of the sanitizer draw from: a letter, a digit,
\* the introducers and terminators of CSI and OSC sequences.
SanAlphabet == {65, 49, ESC, LBRACKET, RBRACKET, BACKSLASH, BEL}

\* A ESC[31m B ESC[0m C
ExampleCsi == <<65, ESC, LBRACKET, 51, 49, 109, 66, ESC, LBRACKET, 48, 109, 67>>
\* A ESC]0;title BEL B
ExampleOscBel == <<65, ESC, RBRACKET, 48, 59, 116, 105, 116, 108, 101, BEL, 66>>
\* A ESC]0;t ESC x l ESC \ B
ExampleOscSt == <<65, ESC, RBRACKET, 48, 59, 116, ESC, 120, 108, ESC, BACKSLASH, 66>>

SanitizerExamples == {ExampleCsi, ExampleOscBel, ExampleOscSt}

\* A renderer is constructed with ansi_state Normal (line 315).
FreshSan ==
    /\ ansi_state = "Normal"
    /\ prev_state = "Normal"
    /\ last_byte = <<>>
    /\ emitted = <<>>
    /\ fed = <<>>
    /\ sanitized = <<>>

\* One call of consume_byte, on any byte, from the state the bytes before it
\* left the parser in.
ConsumeAnyByte(b) ==
    LET r == consume_byte(ansi_state, b)
    IN  /\ prev_state' = ansi_state
        /\ last_byte' = <<b>>
        /\ ansi_state' = r.state
        /\ emitted' = r.out
        /\ UNCHANGED <<fed, sanitized>>
    /\ UNCHANGED not_san_vars

\* One call of consume_byte in a run that remembers every byte fed and every
\* byte emitted (the loop of lines 329-331 over a growing input).
FeedByte(b) ==
    LET r == consume_byte(ansi_state, b)
    IN  /\ \/ Len(fed) < MaxFed /\ b \in SanAlphabet
           \/ \E e \in SanitizerExamples :
                /\ Len(fed) < Len(e)
                /\ e[Len(fed) + 1] = b
                /\ IsPrefix(fed, e)
        /\ prev_state' = ansi_state
        /\ last_byte' = <<b>>
        /\ ansi_state' = r.state
        /\ emitted' = r.out
        /\ fed' = Append(fed, b)
        /\ sanitized' = sanitized \o r.out
        /\ UNCHANGED not_san_vars

\* The bytes FeedByte can feed.
FeedBytes == SanAlphabet \cup UNION {{e[i] : i \in 1..Len(e)} : e \in SanitizerExamples}

---------------------------------------------------------------------------
(* PinnedOutputRenderer (lib.rs 302-456).  A line is a String: a sequence  *)
(* of code points.                                                         *)

REPLACEMENT_CHARACTER == 65533

\* The loop of lines 329-331: consume_byte over a chunk.
RECURSIVE sanitize_chunk(_, _)
sanitize_chunk(st, chunk) ==
    IF chunk = <<>> THEN [state |-> st, out |-> <<>>]
    ELSE LET r == consume_byte(st, Head(chunk))
             rest == sanitize_chunk(r.state, Tail(chunk))
         IN  [state |-> rest.state, out |-> r.out \o rest.out]

\* String::from_utf8_lossy(..).chars(): well-formed UTF-8 sequences decode to
\* their code points, and every maximal ill-formed part becomes U+FFFD.
RECURSIVE from_utf8_lossy(_)
from_utf8_lossy(bs) ==
    IF bs = <<>> THEN <<>>
    ELSE
      LET n == Len(bs)
          b0 == bs[1]
          Cont(i) == i <= n /\ bs[i] \in 128..191
          lo2 == IF b0 = 224 THEN 160 ELSE IF b0 = 240 THEN 144 ELSE 128
          hi2 == IF b0 = 237 THEN 159 ELSE IF b0 = 244 THEN 143 ELSE 191
          Second == n >= 2 /\ bs[2] \in lo2..hi2
          Rest(k) == from_utf8_lossy(SubSeq(bs, k + 1, n))
      IN  IF b0 < 128 THEN <<b0>> \o Rest(1)
          ELSE IF b0 \in 194..223
          THEN IF Cont(2)
               THEN <<(b0 - 192) * 64 + (bs[2] - 128)>> \o Rest(2)
               ELSE <<REPLACEMENT_CHARACTER>> \o Rest(1)
          ELSE IF b0 \in 224..239
          THEN IF ~Second THEN <<REPLACEMENT_CHARACTER>> \o Rest(1)
               ELSE IF ~Cont(3) THEN <<REPLACEMENT_CHARACTER>> \o Rest(2)
               ELSE <<(b0 - 224) * 4096 + (bs[2] - 128) * 64 + (bs[3] - 128)>> \o Rest(3)
          ELSE IF b0 \in 240..244
          THEN IF ~Second THEN <<REPLACEMENT_CHARACTER>> \o Rest(1)
               ELSE IF ~Cont(3) THEN <<REPLACEMENT_CHARACTER>> \o Rest(2)
               ELSE IF ~Cont(4) THEN <<REPLACEMENT_CHARACTER>> \o Rest(3)
               ELSE <<(b0 - 240) * 262144 + (bs[2] - 128) * 4096
                        + (bs[3] - 128) * 64 + (bs[4] - 128)>> \o Rest(4)
          ELSE <<REPLACEMENT_CHARACTER>> \o Rest(1)

\* A scroll buffer that evicts from the back: the newest line goes first.
Mutant_PushCurrentLineEvictsNewest(r) ==
    LET all == Append(r.output_lines, r.current_line)
    IN  [r EXCEPT !.output_lines =
                      IF Len(all) > MAX_RENDERED_OUTPUT_LINES
                      THEN SubSeq(all, 1, MAX_RENDERED_OUTPUT_LINES)
                      ELSE all,
                  !.current_line = <<>>]

\* push_current_line (lines 392-398): the partial line becomes the newest
\* completed line, and lines are popped from the front while there are more
\* than MAX_RENDERED_OUTPUT_LINES.
push_current_line(r) ==
    LET all == Append(r.output_lines, r.current_line)
    IN  [r EXCEPT !.output_lines =
                      IF Len(all) > MAX_RENDERED_OUTPUT_LINES
                      THEN SubSeq(all, Len(all) - MAX_RENDERED_OUTPUT_LINES + 1, Len(all))
                      ELSE all,
                  !.current_line = <<>>]

\* The loop of lines 337-342 over the characters of the sanitized text.
RECURSIVE push_chars(_, _)
push_chars(r, chars) ==
    IF chars = <<>> THEN r
    ELSE IF Head(chars) = LF
    THEN push_chars(push_current_line(r), Tail(chars))
    ELSE push_chars([r EXCEPT !.current_line = Append(r.current_line, Head(chars))],
                    Tail(chars))

\* A push_chunk that starts every chunk with the parser in Normal.
Mutant_PushChunkResetsParser(r, chunk) ==
    LET san == sanitize_chunk("Normal", chunk)
        r1 == [r EXCEPT !.ansi_state = san.state]
    IN  IF san.out = <<>>
        THEN [renderer |-> r1, rendered |-> FALSE]
        ELSE [renderer |-> push_chars(r1, from_utf8_lossy(san.out)), rendered |-> TRUE]

\* A push_chunk without the early return of lines 332-334.
Mutant_PushChunkAlwaysRenders(r, chunk) ==
    LET san == sanitize_chunk(r.ansi_state, chunk)
        r1 == [r EXCEPT !.ansi_state = san.state]
    IN  [renderer |-> push_chars(r1, from_utf8_lossy(san.out)), rendered |-> TRUE]

\* push_chunk (lines 327-345) up to its call of render: the renderer after
\* the chunk, and whether render is called.
push_chunk(r, chunk) ==
    LET san == sanitize_chunk(r.ansi_state, chunk)
        r1 == [r EXCEPT !.ansi_state = san.state]
    IN  IF san.out = <<>>
        THEN [renderer |-> r1, rendered |-> FALSE]
        ELSE [renderer |-> push_chars(r1, from_utf8_lossy(san.out)), rendered |-> TRUE]

\* A finish that closes the partial line even when it is empty.
Mutant_FinishClosesEmptyLine(r) == push_current_line(r)

\* finish (lines 347-351) up to its call of render.
finish(r) == IF r.current_line # <<>> THEN push_current_line(r) ELSE r

\* A clamp that tests the narrow terminal before the fitting line.
Mutant_FitDegradesFirst(line, max_cols) ==
    IF max_cols = 0 THEN <<>>
    ELSE IF max_cols <= 3 THEN Repeat(46, max_cols)
    ELSE IF Len(line) <= max_cols THEN line
    ELSE SubSeq(line, 1, max_cols - 3) \o ELLIPSIS

\* fit_terminal_line (lines 436-456).
fit_terminal_line(line, max_cols) ==
    IF max_cols = 0 THEN <<>>
    ELSE IF Len(line) <= max_cols THEN line
    ELSE IF max_cols <= 3 THEN Repeat(46, max_cols)
    ELSE SubSeq(line, 1, max_cols - 3) \o ELLIPSIS

\* A redraw that shows the head of the visible lines, not their tail.
Mutant_RenderShowsHead(r, rows, cols) ==
    LET body_rows == SaturatingSub(rows, Len(r.header_lines))
        visible_lines == IF r.current_line # <<>>
                         THEN Append(r.output_lines, r.current_line)
                         ELSE r.output_lines
        shown == IF Len(visible_lines) < body_rows THEN Len(visible_lines) ELSE body_rows
        visible_head == SubSeq(visible_lines, 1, shown)
    IN  [i \in 1..Len(r.header_lines) |-> fit_terminal_line(r.header_lines[i], cols)]
          \o [i \in 1..Len(visible_head) |-> fit_terminal_line(visible_head[i], cols)]
          \o [i \in 1..(body_rows - Len(visible_head)) |-> <<>>]

\* render (lines 400-425): the lines one redraw writes, for a terminal of
\* `rows` rows and `cols` columns.
render(r, rows, cols) ==
    LET body_rows == SaturatingSub(rows, Len(r.header_lines))
        visible_lines == IF r.current_line # <<>>
                         THEN Append(r.output_lines, r.current_line)
                         ELSE r.output_lines
        start == SaturatingSub(Len(visible_lines), body_rows)
        visible_tail == SubSeq(visible_lines, start + 1, Len(visible_lines))
    IN  [i \in 1..Len(r.header_lines) |-> fit_terminal_line(r.header_lines[i], cols)]
          \o [i \in 1..Len(visible_tail) |-> fit_terminal_line(visible_tail[i], cols)]
          \o [i \in 1..(body_rows - Len(visible_tail)) |-> <<>>]

\* terminal_rows and terminal_cols (lines 458-472) read LINES and COLUMNS on
\* every redraw and fall back to 24 and 120: the values the model lets them
\* return.
DEFAULT_ROWS == 24
DEFAULT_COLS == 120
TermRows == {2, 6}
TermCols == {4, DEFAULT_COLS}

\* current_task_header_or_default's fallback header (lines 69-76), for the
\* short prompt: a header of 3 lines.
DefaultHeader == << BANNER, CURRENT_TASK \o PromptText("short"), SEPARATOR >>

\* The headers a renderer is constructed with: the default one, and a run's
\* 4-line header.
HeaderPool ==
    { DefaultHeader,
      task_header_lines(1, 1, 0, 1, 0, 1, PromptText("short")).val }

\* PinnedOutputRenderer::new (lines 310-325) with every write succeeding.
NewRenderer(header, rows, cols) ==
    LET r == [header_lines |-> header, output_lines |-> <<>>,
              current_line |-> <<>>, ansi_state |-> "Normal"]
    IN  /\ renderer = <<r>>
        /\ cursor = "hidden"
        /\ frame = render(r, rows, cols)
        /\ term_size = <<[rows |-> rows, cols |-> cols]>>
        /\ last_op = [op |-> "new", rendered |-> TRUE]
        /\ pushed = <<>>
        /\ completed = <<>>

\* No renderer has been constructed.
IdleRend ==
    /\ renderer = <<>>
    /\ cursor = "visible"
    /\ frame = <<>>
    /\ term_size = <<>>
    /\ last_op = [op |-> "none", rendered |-> FALSE]
    /\ pushed = <<>>
    /\ completed = <<>>

\* A renderer that has completed k lines, the decimal numerals 1..k, and
\* holds no partial line: what k pushes of a numeral and a newline leave.
FilledRenderer(header, k, rows, cols) ==
    LET lines == [i \in 1..k |-> Decimal(i)]
        r == [header_lines |-> header, output_lines |-> lines,
              current_line |-> <<>>, ansi_state |-> "Normal"]
    IN  /\ renderer = <<r>>
        /\ cursor = "hidden"
        /\ frame = render(r, rows, cols)
        /\ term_size = <<[rows |-> rows, cols |-> cols]>>
        /\ last_op = [op |-> "push_chunk", rendered |-> TRUE]
        /\ pushed = <<>>
        /\ completed = lines

\* The lines that feeding `chars` to a buffer whose partial line is `cur`
\* completes: the text before each newline, from the newline before it on.
LinesCompletedBy(cur, chars) ==
    LET P == {i \in 1..Len(chars) : chars[i] = LF}
        Pos(j) == CHOOSE i \in P : Cardinality({q \in P : q <= i}) = j
    IN  [j \in 1..Cardinality(P) |->
            IF j = 1 THEN cur \o SubSeq(chars, 1, Pos(1) - 1)
            ELSE SubSeq(chars, Pos(j - 1) + 1, Pos(j) - 1)]

\* One call of push_chunk (lines 327-345) whose writes succeed, on a
\* terminal that reports `rows` and `cols` to the redraw.
PushChunk(chunk, rows, cols) ==
    /\ renderer # <<>>
    /\ Len(pushed) + Len(chunk) <= MaxPushed
    /\ LET r == renderer[1]
           res == push_chunk(r, chunk)
           san == sanitize_chunk(r.ansi_state, chunk)
       IN  /\ renderer' = <<res.renderer>>
           /\ frame' = IF res.rendered THEN render(res.renderer, rows, cols) ELSE frame
           /\ term_size' = IF res.rendered THEN <<[rows |-> rows, cols |-> cols]>>
                           ELSE term_size
           /\ last_op' = [op |-> "push_chunk", rendered |-> res.rendered]
           /\ UNCHANGED cursor
           /\ pushed' = pushed \o chunk
           /\ completed' = completed
                             \o LinesCompletedBy(r.current_line, from_utf8_lossy(san.out))
    /\ UNCHANGED not_rend_vars

\* One call of finish (lines 347-356) whose writes succeed.
Finish(rows, cols) ==
    /\ renderer # <<>>
    /\ LET r == renderer[1]
           r2 == finish(r)
       IN  /\ renderer' = <<r2>>
           /\ frame' = render(r2, rows, cols)
           /\ term_size' = <<[rows |-> rows, cols |-> cols]>>
           /\ cursor' = "visible"
           /\ last_op' = [op |-> "finish", rendered |-> TRUE]
           /\ completed' = IF r.current_line # <<>>
                           THEN Append(completed, r.current_line)
                           ELSE completed
           /\ UNCHANGED pushed
    /\ UNCHANGED not_rend_vars

\* The bytes the chunks of the renderer's runs are made of.  A reader never
\* sends an empty chunk (line 218).
RenderAlphabet == {65, LF, ESC, LBRACKET}
RenderChunks == SeqsUpTo(RenderAlphabet, 2) \ {<<>>}

\* The chunks pushed to the nearly full scroll buffer.
ScrollChunks == SeqsUpTo({65, LF}, 2) \ {<<>>}

---------------------------------------------------------------------------
(* run_command_with_forwarded_output (lib.rs 160-204), the reader tasks    *)
(* (206-227) and the child.  The function runs without suspending from its *)
(* start to its first rx.recv().await, and from each await to the next;    *)
(* each reader task runs from one read().await to the next.                *)

Streams == {"Stdout", "Stderr"}

\* What the child writes in one write, and a reader reads in one read.
RunChunks == {<<65>>, <<66, CR>>}

\* run_command_with_forwarded_output has not been called.
IdleRun ==
    /\ run_pc = "start"
    /\ run_result = <<>>
    /\ pinned_header = <<>>
    /\ is_terminal = FALSE
    /\ child_status = "none"
    /\ child_open = [s \in Streams |-> FALSE]
    /\ child_writes = 0
    /\ pipe = [s \in Streams |-> <<>>]
    /\ reader = [s \in Streams |-> "none"]
    /\ chan = <<>>
    /\ rx_open = FALSE
    /\ awaited = {}
    /\ real_out = <<>>
    /\ real_err = <<>>
    /\ read_log = [s \in Streams |-> <<>>]
    /\ sent = <<>>
    /\ applied = <<>>
    /\ loop_exit = "none"
    /\ hid_cursor = FALSE

\* A call with a header or none, to a terminal or not.
RunEntry ==
    /\ run_pc = "start"
    /\ run_result = <<>>
    /\ pinned_header \in {<<>>, <<DefaultHeader>>}
    /\ is_terminal \in BOOLEAN
    /\ child_status = "none"
    /\ child_open = [s \in Streams |-> FALSE]
    /\ child_writes = 0
    /\ pipe = [s \in Streams |-> <<>>]
    /\ reader = [s \in Streams |-> "none"]
    /\ chan = <<>>
    /\ rx_open = FALSE
    /\ awaited = {}
    /\ real_out = <<>>
    /\ real_err = <<>>
    /\ read_log = [s \in Streams |-> <<>>]
    /\ sent = <<>>
    /\ applied = <<>>
    /\ loop_exit = "none"
    /\ hid_cursor = FALSE

\* Line 181: the renderer is used when a header was given and stdout is a
\* terminal.
Pinned == pinned_header # <<>> /\ is_terminal

\* mpsc::UnboundedSender::send on an open channel.
chan_send(q, msg) == Append(q, msg)

\* A receive that takes the newest message.
Mutant_ChanRecvNewest(q) == [msg |-> q[Len(q)], rest |-> SubSeq(q, 1, Len(q) - 1)]

\* mpsc::UnboundedReceiver::recv on a non-empty channel.
chan_recv(q) == [msg |-> Head(q), rest |-> Tail(q)]

\* A drop that writes nothing.
Mutant_DropLeavesCursor(cur) == cur

\* impl Drop for PinnedOutputRenderer (lines 428-434), from a cursor left as
\* `cur`: the show-cursor sequence is written and the results of the write
\* and the flush are discarded.
PinnedOutputRenderer_drop(cur) == "visible"

\* A child that is always reported successful.
Mutant_StatusSuccessAlways(status) == TRUE

\* ExitStatus::success (line 151): the child exited with status zero.
status_success(status) == status = "exit_zero"

\* run_codex (lines 123-151) on what run_command_with_forwarded_output
\* returned: Ok(status.success()) or the error.  (The retry through a shell
\* after a NotFound error is another call of the same function.)
run_codex(res) ==
    IF res.ok THEN [ok |-> TRUE, val |-> status_success(res.what)]
    ELSE [ok |-> FALSE, val |-> res.what]

\* The function returns `res`; its locals are dropped: the receiver, and the
\* renderer if there is one.
Return(res) ==
    /\ run_pc' = "returned"
    /\ run_result' = <<res>>
    /\ rx_open' = FALSE
    /\ chan' = <<>>

Err(what) == [ok |-> FALSE, what |-> what]
Ok(what) == [ok |-> TRUE, what |-> what]

\* Line 165: cmd.spawn() fails.
SpawnFails ==
    /\ run_pc = "start"
    /\ Return(Err("spawn"))
    /\ UNCHANGED <<pinned_header, is_terminal, child_status, child_open, child_writes,
                   pipe, reader, awaited, real_out, real_err, read_log, sent, applied,
                   loop_exit, hid_cursor>>
    /\ UNCHANGED rend_vars
    /\ UNCHANGED not_run_vars

\* What lines 164-179 leave: a running child, two reader tasks, the channel.
Spawned ==
    /\ child_status' = "running"
    /\ child_open' = [s \in Streams |-> TRUE]
    /\ reader' = [s \in Streams |-> "running"]

\* Lines 164-183 and 310-325 when the renderer is used: the child is
\* spawned and PinnedOutputRenderer::new runs; `io` says which of its writes
\* fails, if any.
LaunchPinned(io) ==
    /\ run_pc = "start"
    /\ Pinned
    /\ Spawned
    /\ LET r == [header_lines |-> pinned_header[1], output_lines |-> <<>>,
                 current_line |-> <<>>, ansi_state |-> "Normal"]
       IN  CASE io = "ok" ->
                  /\ renderer' = <<r>>
                  /\ cursor' = "hidden"
                  /\ hid_cursor' = TRUE
                  /\ frame' = render(r, DEFAULT_ROWS, DEFAULT_COLS)
                  /\ term_size' = <<[rows |-> DEFAULT_ROWS, cols |-> DEFAULT_COLS]>>
                  /\ last_op' = [op |-> "new", rendered |-> TRUE]
                  /\ run_pc' = "consuming"
                  /\ rx_open' = TRUE
                  /\ UNCHANGED <<run_result, chan>>
             [] io = "fail_hide" ->
                  \* write! of the hide sequence fails (line 320): the local
                  \* renderer is dropped.
                  /\ renderer' = <<>>
                  /\ cursor' = PinnedOutputRenderer_drop(cursor)
                  /\ Return(Err("new"))
                  /\ UNCHANGED <<hid_cursor, frame, term_size, last_op>>
             [] io = "fail_render" ->
                  \* the hide sequence is written; the flush (line 321) or the
                  \* first redraw (line 323) fails: the local renderer is dropped.
                  /\ renderer' = <<>>
                  /\ hid_cursor' = TRUE
                  /\ cursor' = PinnedOutputRenderer_drop("hidden")
                  /\ Return(Err("new"))
                  /\ UNCHANGED <<frame, term_size, last_op>>
    /\ UNCHANGED <<pinned_header, is_terminal, child_writes, pipe, awaited, real_out,
                   real_err, read_log, sent, applied, loop_exit>>
    /\ UNCHANGED <<pushed, completed>>
    /\ UNCHANGED not_run_vars

\* Lines 164-190 when the renderer is not used.
LaunchRaw ==
    /\ run_pc = "start"
    /\ ~Pinned
    /\ Spawned
    /\ run_pc' = "consuming"
    /\ rx_open' = TRUE
    /\ UNCHANGED <<run_result, chan, pinned_header, is_terminal, child_writes, pipe,
                   awaited, real_out, real_err, read_log, sent, applied, loop_exit,
                   hid_cursor>>
    /\ UNCHANGED rend_vars
    /\ UNCHANGED not_run_vars

\* The child writes a chunk to one of its streams.
ChildWrite(s, chunk) ==
    /\ child_status = "running"
    /\ child_open[s]
    /\ child_writes < MaxChildChunks
    /\ pipe' = [pipe EXCEPT ![s] = Append(@, chunk)]
    /\ child_writes' = child_writes + 1
    /\ UNCHANGED <<run_pc, run_result, pinned_header, is_terminal, child_status,
                   child_open, reader, chan, rx_open, awaited, real_out, real_err,
                   read_log, sent, applied, loop_exit, hid_cursor>>
    /\ UNCHANGED rend_vars
    /\ UNCHANGED not_run_vars

\* The child closes one of its streams.
ChildClose(s) ==
    /\ child_status = "running"
    /\ child_open[s]
    /\ child_open' = [child_open EXCEPT ![s] = FALSE]
    /\ UNCHANGED <<run_pc, run_result, pinned_header, is_terminal, child_status,
                   child_writes, pipe, reader, chan, rx_open, awaited, real_out,
                   real_err, read_log, sent, applied, loop_exit, hid_cursor>>
    /\ UNCHANGED rend_vars
    /\ UNCHANGED not_run_vars

\* The child exits with a status; its streams close with it.
ChildExit(status) ==
    /\ child_status = "running"
    /\ child_status' = status
    /\ child_open' = [s \in Streams |-> FALSE]
    /\ UNCHANGED <<run_pc, run_result, pinned_header, is_terminal, child_writes, pipe,
                   reader, chan, rx_open, awaited, real_out, real_err, read_log, sent,
                   applied, loop_exit, hid_cursor>>
    /\ UNCHANGED rend_vars
    /\ UNCHANGED not_run_vars

\* Lines 217-223: the read returns a chunk and the reader sends it; when the
\* receiver is gone the send fails and the task ends with Ok(()).
ReaderRead(s) ==
    /\ reader[s] = "running"
    /\ pipe[s] # <<>>
    /\ LET chunk == Head(pipe[s])
           msg == [stream |-> s, chunk |-> chunk]
       IN  /\ pipe' = [pipe EXCEPT ![s] = Tail(@)]
           /\ read_log' = [read_log EXCEPT ![s] = Append(@, chunk)]
           /\ IF rx_open
              THEN /\ chan' = chan_send(chan, msg)
                   /\ sent' = Append(sent, msg)
                   /\ UNCHANGED reader
              ELSE /\ reader' = [reader EXCEPT ![s] = "ok"]
                   /\ UNCHANGED <<chan, sent>>
    /\ UNCHANGED <<run_pc, run_result, pinned_header, is_terminal, child_status,
                   child_open, child_writes, rx_open, awaited, real_out, real_err,
                   applied, loop_exit, hid_cursor>>
    /\ UNCHANGED rend_vars
    /\ UNCHANGED not_run_vars

\* Lines 217-220: the read returns 0 at end of stream; the task ends with
\* Ok(()).
ReaderEof(s) ==
    /\ reader[s] = "running"
    /\ pipe[s] = <<>>
    /\ ~child_open[s]
    /\ reader' = [reader EXCEPT ![s] = "ok"]
    /\ UNCHANGED <<run_pc, run_result, pinned_header, is_terminal, child_status,
                   child_open, child_writes, pipe, chan, rx_open, awaited, real_out,
                   real_err, read_log, sent, applied, loop_exit, hid_cursor>>
    /\ UNCHANGED rend_vars
    /\ UNCHANGED not_run_vars

\* Line 217: the read fails; the task ends with the error.
ReaderError(s) ==
    /\ reader[s] = "running"
    /\ reader' = [reader EXCEPT ![s] = "err"]
    /\ UNCHANGED <<run_pc, run_result, pinned_header, is_terminal, child_status,
                   child_open, child_writes, pipe, chan, rx_open, awaited, real_out,
                   real_err, read_log, sent, applied, loop_exit, hid_cursor>>
    /\ UNCHANGED rend_vars
    /\ UNCHANGED not_run_vars

\* Lines 183-185: the consumer receives a chunk and pushes it to the
\* renderer; when a write of the redraw fails the error is returned and the
\* renderer is dropped.
ConsumePinned(io_ok) ==
    /\ run_pc = "consuming"
    /\ Pinned
    /\ chan # <<>>
    /\ LET got == chan_recv(chan)
           r == renderer[1]
           res == push_chunk(r, got.msg.chunk)
           san == sanitize_chunk(r.ansi_state, got.msg.chunk)
       IN  /\ applied' = Append(applied, got.msg)
           /\ pushed' = pushed \o got.msg.chunk
           /\ completed' = completed
                             \o LinesCompletedBy(r.current_line, from_utf8_lossy(san.out))
           /\ last_op' = [op |-> "push_chunk", rendered |-> res.rendered]
           /\ IF io_ok \/ ~res.rendered
              THEN /\ renderer' = <<res.renderer>>
                   /\ frame' = IF res.rendered
                               THEN render(res.renderer, DEFAULT_ROWS, DEFAULT_COLS)
                               ELSE frame
                   /\ term_size' = IF res.rendered
                                   THEN <<[rows |-> DEFAULT_ROWS, cols |-> DEFAULT_COLS]>>
                                   ELSE term_size
                   /\ chan' = got.rest
                   /\ UNCHANGED <<cursor, run_pc, run_result, rx_open, loop_exit>>
              ELSE /\ renderer' = <<>>
                   /\ cursor' = PinnedOutputRenderer_drop(cursor)
                   /\ loop_exit' = "error"
                   /\ Return(Err("push_chunk"))
                   /\ UNCHANGED <<frame, term_size>>
    /\ UNCHANGED <<pinned_header, is_terminal, child_status, child_open, child_writes,
                   pipe, reader, awaited, real_out, real_err, read_log, sent,
                   hid_cursor>>
    /\ UNCHANGED not_run_vars

\* A write that sanitizes the chunk as the renderer does.
Mutant_WriteAllSanitized(written, chunk) == written \o sanitize_chunk("Normal", chunk).out

\* AsyncWriteExt::write_all (lines 192-193): the chunk's bytes follow what
\* was written to that stream before.
write_all(written, chunk) == written \o chunk

\* Lines 190-195: the consumer receives a chunk and writes it to the real
\* stream it came from; when the write fails the error is returned.
ConsumeRaw(io_ok) ==
    /\ run_pc = "consuming"
    /\ ~Pinned
    /\ chan # <<>>
    /\ LET got == chan_recv(chan)
       IN  /\ applied' = Append(applied, got.msg)
           /\ IF io_ok
              THEN /\ real_out' = IF got.msg.stream = "Stdout"
                                  THEN write_all(real_out, got.msg.chunk) ELSE real_out
                   /\ real_err' = IF got.msg.stream = "Stderr"
                                  THEN write_all(real_err, got.msg.chunk) ELSE real_err
                   /\ chan' = got.rest
                   /\ UNCHANGED <<run_pc, run_result, rx_open, loop_exit>>
              ELSE /\ loop_exit' = "error"
                   /\ Return(Err("write"))
                   /\ UNCHANGED <<real_out, real_err>>
    /\ UNCHANGED <<pinned_header, is_terminal, child_status, child_open, child_writes,
                   pipe, reader, awaited, read_log, sent, hid_cursor>>
    /\ UNCHANGED rend_vars
    /\ UNCHANGED not_run_vars

\* The function keeps its own sender: recv never returns None.
Mutant_ChannelClosedLauncherKeepsSender == chan = <<>> /\ FALSE

\* recv returns None: the channel is empty and every sender is dropped (the
\* function's own at line 179, each reader's when its task ends).
ChannelClosed == chan = <<>> /\ \A s \in Streams : reader[s] \in {"ok", "err"}

\* Lines 183-187: the loop ends and finish runs; the renderer is dropped at
\* the end of the block, or when finish returns an error.
FinishPinned(io) ==
    /\ run_pc = "consuming"
    /\ Pinned
    /\ ChannelClosed
    /\ LET r == renderer[1]
           r2 == finish(r)
       IN  /\ completed' = IF r.current_line # <<>>
                           THEN Append(completed, r.current_line)
                           ELSE completed
           /\ renderer' = <<>>
           \* line 354 writes the show-cursor sequence when the redraw succeeded
           /\ cursor' = PinnedOutputRenderer_drop(IF io = "ok" THEN "visible" ELSE cursor)
           /\ loop_exit' = "closed"
           /\ last_op' = [op |-> "finish", rendered |-> io # "fail_render"]
           /\ frame' = IF io # "fail_render"
                       THEN render(r2, DEFAULT_ROWS, DEFAULT_COLS) ELSE frame
           /\ term_size' = IF io # "fail_render"
                           THEN <<[rows |-> DEFAULT_ROWS, cols |-> DEFAULT_COLS]>>
                           ELSE term_size
           /\ IF io = "ok"
              THEN /\ run_pc' = "await_stdout"
                   /\ UNCHANGED <<run_result, rx_open, chan>>
              ELSE Return(Err("finish"))
    /\ UNCHANGED <<pinned_header, is_terminal, child_status, child_open, child_writes,
                   pipe, reader, awaited, real_out, real_err, read_log, sent, applied,
                   hid_cursor>>
    /\ UNCHANGED pushed
    /\ UNCHANGED not_run_vars

\* Lines 190-197: the loop ends and both real streams are flushed.
FinishRaw(io_ok) ==
    /\ run_pc = "consuming"
    /\ ~Pinned
    /\ ChannelClosed
    /\ loop_exit' = "closed"
    /\ IF io_ok
       THEN /\ run_pc' = "await_stdout"
            /\ UNCHANGED <<run_result, rx_open, chan>>
       ELSE Return(Err("flush"))
    /\ UNCHANGED <<pinned_header, is_terminal, child_status, child_open, child_writes,
                   pipe, reader, awaited, real_out, real_err, read_log, sent, applied,
                   hid_cursor>>
    /\ UNCHANGED rend_vars
    /\ UNCHANGED not_run_vars

\* Lines 200 and 229-237: the stdout reader task is awaited; its error, if
\* any, is returned labeled "stdout".
AwaitStdout ==
    /\ run_pc = "await_stdout"
    /\ reader["Stdout"] \in {"ok", "err"}
    /\ awaited' = awaited \cup {"Stdout"}
    /\ IF reader["Stdout"] = "err"
       THEN Return(Err("stdout"))
       ELSE /\ run_pc' = "await_stderr"
            /\ UNCHANGED <<run_result, rx_open, chan>>
    /\ UNCHANGED <<pinned_header, is_terminal, child_status, child_open, child_writes,
                   pipe, reader, real_out, real_err, read_log, sent, applied, loop_exit,
                   hid_cursor>>
    /\ UNCHANGED rend_vars
    /\ UNCHANGED not_run_vars

\* Lines 201 and 229-237: the stderr reader task is awaited; its error, if
\* any, is returned labeled "stderr".
AwaitStderr ==
    /\ run_pc = "await_stderr"
    /\ reader["Stderr"] \in {"ok", "err"}
    /\ awaited' = awaited \cup {"Stderr"}
    /\ IF reader["Stderr"] = "err"
       THEN Return(Err("stderr"))
       ELSE /\ run_pc' = "wait_child"
            /\ UNCHANGED <<run_result, rx_open, chan>>
    /\ UNCHANGED <<pinned_header, is_terminal, child_status, child_open, child_writes,
                   pipe, reader, real_out, real_err, read_log, sent, applied, loop_exit,
                   hid_cursor>>
    /\ UNCHANGED rend_vars
    /\ UNCHANGED not_run_vars

\* Line 203: the child has exited and child.wait() returns its status.
WaitChild ==
    /\ run_pc = "wait_child"
    /\ child_status \in {"exit_zero", "exit_nonzero"}
    /\ Return(Ok(child_status))
    /\ UNCHANGED <<pinned_header, is_terminal, child_status, child_open, child_writes,
                   pipe, reader, awaited, real_out, real_err, read_log, sent, applied,
                   loop_exit, hid_cursor>>
    /\ UNCHANGED rend_vars
    /\ UNCHANGED not_run_vars

NextRun ==
    \/ SpawnFails
    \/ \E io \in {"ok", "fail_hide", "fail_render"} : LaunchPinned(io)
    \/ LaunchRaw
    \/ \E s \in Streams, chunk \in RunChunks : ChildWrite(s, chunk)
    \/ \E s \in Streams : ChildClose(s)
    \/ \E status \in {"exit_zero", "exit_nonzero"} : ChildExit(status)
    \/ \E s \in Streams : ReaderRead(s)
    \/ \E s \in Streams : ReaderEof(s)
    \/ \E s \in Streams : ReaderError(s)
    \/ \E io_ok \in BOOLEAN : ConsumePinned(io_ok)
    \/ \E io_ok \in BOOLEAN : ConsumeRaw(io_ok)
    \/ \E io \in {"ok", "fail_render", "fail_show"} : FinishPinned(io)
    \/ \E io_ok \in BOOLEAN : FinishRaw(io_ok)
    \/ AwaitStdout
    \/ AwaitStderr
    \/ WaitChild

---------------------------------------------------------------------------
(* One call of a pure function: truncate_display (lib.rs 19-25) and        *)
(* fit_terminal_line (436-456), on strings with one-byte and two-byte      *)
(* characters.                                                             *)

\* The characters of the strings: 'a' (one byte) and U+00E9 (two bytes).
TextAlphabet == {97, 233}
Texts == SeqsUpTo(TextAlphabet, MaxTextLen)
Limits == 0..MaxLimit

\* No pure function is being called on its own.
IdlePure ==
    /\ arg_s = <<>>
    /\ arg_n = 0
    /\ ret = <<>>

\* A call about to be made, with any string and any limit.
PureEntry ==
    /\ arg_s \in Texts
    /\ arg_n \in Limits
    /\ ret = <<>>

\* truncate_display(arg_s, arg_n) returns or panics.
CallTruncateDisplay ==
    /\ ret = <<>>
    /\ ret' = <<truncate_display(arg_s, arg_n)>>
    /\ UNCHANGED <<arg_s, arg_n>>
    /\ UNCHANGED not_pure_vars

\* fit_terminal_line(arg_s, arg_n) returns.
CallFitTerminalLine ==
    /\ ret = <<>>
    /\ ret' = <<fit_terminal_line(arg_s, arg_n)>>
    /\ UNCHANGED <<arg_s, arg_n>>
    /\ UNCHANGED not_pure_vars

---------------------------------------------------------------------------
(* The specifications.  Each runs one part of the program and leaves the   *)
(* variables of the other parts at their initial values.                   *)

InitOrch == OrchEntry /\ FreshSan /\ IdleRend /\ IdleRun /\ IdlePure /\ IdleMain

SpecOrch == InitOrch /\ [][NextOrch]_vars

InitSan == IdleOrch /\ FreshSan /\ IdleRend /\ IdleRun /\ IdlePure /\ IdleMain

NextSanStep == \E b \in Byte : ConsumeAnyByte(b)

SpecSanStep == InitSan /\ [][NextSanStep]_vars

NextSan == \E b \in FeedBytes : FeedByte(b)

SpecSan == InitSan /\ [][NextSan]_vars

InitRender ==
    /\ IdleOrch /\ FreshSan /\ IdleRun /\ IdlePure /\ IdleMain
    /\ \E header \in HeaderPool, rows \in TermRows, cols \in TermCols :
          NewRenderer(header, rows, cols)

NextRender ==
    \/ \E chunk \in RenderChunks, rows \in TermRows, cols \in TermCols :
          PushChunk(chunk, rows, cols)
    \/ \E rows \in TermRows, cols \in TermCols : Finish(rows, cols)

SpecRender == InitRender /\ [][NextRender]_vars

InitScroll ==
    /\ IdleOrch /\ FreshSan /\ IdleRun /\ IdlePure /\ IdleMain
    /\ \E k \in (MAX_RENDERED_OUTPUT_LINES - ScrollSlack)..MAX_RENDERED_OUTPUT_LINES :
          FilledRenderer(DefaultHeader, k, DEFAULT_ROWS, DEFAULT_COLS)

NextScroll ==
    \/ \E chunk \in ScrollChunks : PushChunk(chunk, DEFAULT_ROWS, DEFAULT_COLS)
    \/ Finish(DEFAULT_ROWS, DEFAULT_COLS)

SpecScroll == InitScroll /\ [][NextScroll]_vars

InitRun == IdleOrch /\ FreshSan /\ IdleRend /\ RunEntry /\ IdlePure /\ IdleMain

SpecRun == InitRun /\ [][NextRun]_vars

\* What the tokio runtime runs when it is ready: the function's own
\* continuation and the two reader tasks.
Scheduled ==
    \/ LaunchRaw
    \/ \E io \in {"ok", "fail_hide", "fail_render"} : LaunchPinned(io)
    \/ \E s \in Streams : ReaderRead(s)
    \/ \E s \in Streams : ReaderEof(s)
    \/ \E io_ok \in BOOLEAN : ConsumePinned(io_ok)
    \/ \E io_ok \in BOOLEAN : ConsumeRaw(io_ok)
    \/ \E io \in {"ok", "fail_render", "fail_show"} : FinishPinned(io)
    \/ \E io_ok \in BOOLEAN : FinishRaw(io_ok)
    \/ AwaitStdout
    \/ AwaitStderr
    \/ WaitChild

\* The runtime does not stop while a task is ready.  Nothing forces the
\* child to write, close or exit, a read or a write to fail, or the spawn to
\* fail.  (Weaker than fairness to each task, which it follows from.)
RunFairness == WF_vars(Scheduled)

SpecRunFair == InitRun /\ [][NextRun]_vars /\ RunFairness

InitMain == MainEntry /\ FreshSan /\ IdleRend /\ IdleRun /\ IdlePure

SpecMain == InitMain /\ [][NextMain]_vars

InitTruncate == IdleOrch /\ FreshSan /\ IdleRend /\ IdleRun /\ PureEntry /\ IdleMain

SpecTruncate == InitTruncate /\ [][CallTruncateDisplay]_vars

InitFit == IdleOrch /\ FreshSan /\ IdleRend /\ IdleRun /\ PureEntry /\ IdleMain

SpecFit == InitFit /\ [][CallFitTerminalLine]_vars

---------------------------------------------------------------------------
(* Claims about orchestrate, checked under SpecOrch.                       *)

\* orchestrate has stopped: it returned its results, or it panicked.
OrchEnded == orch_pc \in {"done", "panicked"}

TotalRuns == loops * Len(prompts)

\* C1: for every prompt list and loop count, the runner is invoked exactly
\* loops * n times, one call at a time, loop index outermost and task index
\* innermost, and exactly loops * n results are returned with their
\* (loop, task) pairs in that order; nothing runs when loops = 0 or n = 0.
C1_RunsEveryPairInOrder ==
    LET n == Len(prompts)
    IN  /\ Len(invocations) - Len(results) \in {0, 1}
        /\ Len(invocations) - Len(results) = 1 <=> orch_pc = "running"
        /\ \A k \in 1..Len(invocations) : invocations[k] = prompts[((k - 1) % n) + 1]
        /\ \A k \in 1..Len(results) :
              results[k][1] = (k - 1) \div n /\ results[k][2] = (k - 1) % n
        /\ OrchEnded => Len(invocations) = TotalRuns /\ Len(results) = TotalRuns

\* C2: a run whose runner returned Ok(false) or Err never aborts orchestrate:
\* once orchestrate has stopped after such a run, every (loop, task) pair was
\* run exactly once; and the run just finished is recorded with success
\* false for Err and with b for Ok(b).
C2_FailedRunNeverAborts ==
    /\ last_outcome # "none" =>
          results[Len(results)][3] = (last_outcome = "OkTrue")
    /\ (OrchEnded /\ \E k \in 1..Len(results) : ~results[k][3]) =>
          /\ Len(results) = TotalRuns
          /\ Len(invocations) = TotalRuns

\* The header the claim expects while run (loop_idx, task_idx) executes.
C3_ExpectedHeader ==
    LET n == Len(prompts)
    IN  << BANNER,
           RUN_LABEL \o Decimal(loop_idx * n + task_idx + 1) \o SLASH \o Decimal(loops * n)
             \o LOOP_LABEL \o Decimal(loop_idx + 1) \o SLASH \o Decimal(loops)
             \o TASK_LABEL \o Decimal(task_idx + 1) \o SLASH \o Decimal(n),
           CURRENT_TASK \o truncate_display(PromptText(prompts[task_idx + 1]), MAX_CURRENT_TASK_LEN).val,
           SEPARATOR >>

\* C3: while a run's runner executes, the header slot holds exactly that
\* run's 4-line header, whose run index is the number of finished runs plus
\* one, that is loop_idx * n + task_idx + 1, out of loops * n; at every other
\* time (before the first run, between runs, after orchestrate has stopped,
\* whatever the runner returned) the slot is None.
C3_HeaderSlotTracksTheRun ==
    /\ orch_pc = "running" =>
          /\ task_header = <<C3_ExpectedHeader>>
          /\ Len(task_header[1]) = 4
          /\ loop_idx * Len(prompts) + task_idx + 1 = Len(results) + 1
    /\ orch_pc # "running" => task_header = <<>>

\* The second run of a pass executes after the first one returned Err.
C3_Witness ==
    /\ orch_pc = "running"
    /\ last_outcome = "Err"
    /\ Len(results) >= 1
    /\ task_header # <<>>

---------------------------------------------------------------------------
(* Claims about one call of consume_byte, checked under SpecSanStep.       *)

SafeByte(b) == b \in 32..126 \/ b \in 128..255 \/ b = LF \/ b = TAB

\* C5: whatever the parser state and the byte, consume_byte emits only
\* printable bytes 0x20-0x7e, high bytes 0x80-0xff, newline and tab: never
\* ESC, never a carriage return, never another control byte, never 0x7f.
C5_OnlySafeBytesEmitted ==
    /\ Len(emitted) <= 1
    /\ \A i \in 1..Len(emitted) :
          /\ SafeByte(emitted[i])
          /\ emitted[i] \notin {ESC, CR, DEL}
          /\ emitted[i] \notin 0..8 /\ emitted[i] \notin 11..31

\* A DEL byte was fed in the Normal state and nothing was emitted for it.
C5_Witness ==
    /\ prev_state = "Normal"
    /\ last_byte = <<DEL>>
    /\ emitted = <<>>

\* C8 as stated: every carriage return fed to the sanitizer is emitted as a
\* newline.
C8_EveryCrBecomesNewline == last_byte = <<CR>> => emitted = <<LF>>

\* C8 as amended: a carriage return fed while the parser is in the Normal
\* state is emitted as a newline (and never as a carriage return) and leaves
\* the parser in Normal; a carriage return fed inside an escape sequence
\* (state Esc, Csi, Osc or OscEsc) is consumed without output.
C8_CrInNormalBecomesNewline ==
    last_byte = <<CR>> =>
        IF prev_state = "Normal"
        THEN emitted = <<LF>> /\ ansi_state = "Normal"
        ELSE emitted = <<>>

\* A carriage return was fed in the Normal state.
C8_Witness ==
    /\ prev_state = "Normal"
    /\ last_byte = <<CR>>
    /\ emitted = <<LF>>

---------------------------------------------------------------------------
(* Claims about byte sequences fed from the Normal state, checked under    *)
(* SpecSan.  Each compares what the byte-at-a-time parser emitted with a   *)
(* description of the input as a whole: text and complete sequences.       *)

Printable(b) == b \in 32..126

Min(S) == CHOOSE x \in S : \A y \in S : x <= y

\* The position of the first byte of s at or after k that is in 0x40..=0x7e,
\* or 0 when there is none.
CsiFinalFrom(s, k) ==
    LET F == {j \in k..Len(s) : s[j] \in 64..126}
    IN  IF F = {} THEN 0 ELSE Min(F)

\* s read as printable text with complete CSI sequences (ESC, '[', bytes
\* outside 0x40..=0x7e, one byte in 0x40..=0x7e) in it: whether it is of that
\* shape, and the text with the sequences taken out.
RECURSIVE StripCsi(_)
StripCsi(s) ==
    IF s = <<>> THEN [ok |-> TRUE, out |-> <<>>]
    ELSE IF Printable(Head(s))
    THEN LET r == StripCsi(Tail(s)) IN [ok |-> r.ok, out |-> <<Head(s)>> \o r.out]
    ELSE IF Head(s) = ESC /\ Len(s) >= 3 /\ s[2] = LBRACKET /\ CsiFinalFrom(s, 3) # 0
    THEN StripCsi(SubSeq(s, CsiFinalFrom(s, 3) + 1, Len(s)))
    ELSE [ok |-> FALSE, out |-> <<>>]

HasEsc(s) == \E i \in 1..Len(s) : s[i] = ESC

\* C6: from the Normal state, text that contains CSI sequences is emitted
\* with the surrounding printable text unchanged and no byte of a sequence,
\* and the parser is in Normal after the terminating byte; A ESC[31m B ESC[0m C
\* sanitizes to ABC.
C6_CsiSequencesRemoved ==
    /\ (HasEsc(fed) /\ StripCsi(fed).ok) =>
          /\ sanitized = StripCsi(fed).out
          /\ ansi_state = "Normal"
    /\ fed = ExampleCsi => sanitized = <<65, 66, 67>>

\* The example A ESC[31m B ESC[0m C has been fed in full.
C6_Witness ==
    /\ fed = ExampleCsi
    /\ sanitized = <<65, 66, 67>>
    /\ ansi_state = "Normal"

\* The position of the last byte of the terminator of an OSC payload that
\* starts at k: a BEL, or an ESC followed by a backslash; an ESC followed by
\* any other byte is payload.  0 when the payload is not terminated.
RECURSIVE OscEndFrom(_, _)
OscEndFrom(s, k) ==
    IF k > Len(s) THEN 0
    ELSE IF s[k] = BEL THEN k
    ELSE IF s[k] = ESC
    THEN IF k + 1 > Len(s) THEN 0
         ELSE IF s[k + 1] = BACKSLASH THEN k + 1
         ELSE OscEndFrom(s, k + 2)
    ELSE OscEndFrom(s, k + 1)

\* s read as printable text with OSC sequences (ESC, ']', payload,
\* terminator) in it: "closed" when every sequence is terminated, "open" when
\* the last one is not, "other" when s is not of that shape; and the text
\* with the sequences taken out.
RECURSIVE StripOsc(_)
StripOsc(s) ==
    IF s = <<>> THEN [shape |-> "closed", out |-> <<>>]
    ELSE IF Printable(Head(s))
    THEN LET r == StripOsc(Tail(s)) IN [shape |-> r.shape, out |-> <<Head(s)>> \o r.out]
    ELSE IF Head(s) = ESC /\ Len(s) >= 2 /\ s[2] = RBRACKET
    THEN IF OscEndFrom(s, 3) = 0
         THEN [shape |-> "open", out |-> <<>>]
         ELSE StripOsc(SubSeq(s, OscEndFrom(s, 3) + 1, Len(s)))
    ELSE [shape |-> "other", out |-> <<>>]

\* C7: from the Normal state, an OSC sequence terminated by BEL or by ESC
\* backslash is removed entirely, the parser is in Normal after the
\* terminator and the text around it is emitted unchanged; an ESC followed by
\* a byte other than backslash inside the payload does not end the sequence
\* (the parser stays inside the OSC and emits nothing).
C7_OscSequencesRemoved ==
    /\ (HasEsc(fed) /\ StripOsc(fed).shape = "closed") =>
          /\ sanitized = StripOsc(fed).out
          /\ ansi_state = "Normal"
    /\ StripOsc(fed).shape = "open" =>
          /\ sanitized = StripOsc(fed).out
          /\ ansi_state \in {"Osc", "OscEsc"}
    /\ (prev_state = "OscEsc" /\ last_byte # <<BACKSLASH>>) =>
          ansi_state = "Osc" /\ emitted = <<>>
    /\ fed = ExampleOscBel => sanitized = <<65, 66>>
    /\ fed = ExampleOscSt => sanitized = <<65, 66>>

\* The example A ESC]0;t ESC x l ESC \ B has been fed in full: its payload
\* holds an ESC followed by a byte other than backslash, and ESC backslash
\* terminates it.
C7_Witness ==
    /\ fed = ExampleOscSt
    /\ sanitized = <<65, 66>>
    /\ ansi_state = "Normal"

---------------------------------------------------------------------------
(* Claims about the scroll buffer, checked under SpecScroll: a renderer    *)
(* that starts with nearly MAX_RENDERED_OUTPUT_LINES completed lines.      *)

\* C9: after any sequence of push_chunk and finish calls the renderer
\* retains at most 4000 completed lines, and they are the most recently
\* completed ones in the order they were completed: once more than 4000
\* lines were completed, exactly the last 4000 of them.
C9_ScrollBufferKeepsNewest ==
    LET lines == renderer[1].output_lines
        n == Len(completed)
    IN  /\ Len(lines) <= MAX_RENDERED_OUTPUT_LINES
        /\ n <= MAX_RENDERED_OUTPUT_LINES => lines = completed
        /\ n > MAX_RENDERED_OUTPUT_LINES =>
              lines = SubSeq(completed, n - MAX_RENDERED_OUTPUT_LINES + 1, n)

\* Two lines or more have been evicted, the last of them by finish.
C9_Witness ==
    /\ Len(completed) >= MAX_RENDERED_OUTPUT_LINES + 2
    /\ Len(renderer[1].output_lines) = MAX_RENDERED_OUTPUT_LINES
    /\ last_op.op = "finish"

---------------------------------------------------------------------------
(* Claims about run_command_with_forwarded_output, checked under SpecRun.  *)

\* C4: whenever a renderer has hidden the cursor for a run, the show-cursor
\* sequence is the last cursor sequence written once the renderer's block is
\* left, and so before the function returns, on every exit path: the normal
\* finish, an I/O error in the constructor's first redraw, in push_chunk and
\* in finish; and no renderer outlives the block.
C4_CursorRestoredOnEveryExit ==
    (hid_cursor /\ run_pc \notin {"start", "consuming"}) =>
        (cursor = "visible" /\ renderer = <<>>)

\* The run hid the cursor, pushed a chunk, and returned with the I/O error of
\* a later push_chunk.
C4_Witness ==
    /\ hid_cursor
    /\ run_pc = "returned"
    /\ run_result = <<Err("push_chunk")>>
    /\ Len(applied) = 2
    /\ cursor = "visible"

\* The chunks of the messages of one stream, in order.
ChunksOf(msgs, s) ==
    LET own == SelectSeq(msgs, LAMBDA m : m.stream = s)
    IN  [i \in 1..Len(own) |-> own[i].chunk]

\* The bytes of a sequence of messages, in order.
RECURSIVE BytesOf(_)
BytesOf(msgs) ==
    IF msgs = <<>> THEN <<>> ELSE Head(msgs).chunk \o BytesOf(Tail(msgs))

\* C10: the consumer applies chunks in the order they arrived on the
\* channel; the chunks of one stream are sent and applied in the order its
\* reader read them; what reached the renderer or the real streams is the
\* applied chunks in that order; and when the loop ends because the channel
\* closed, every chunk a reader read was sent and applied exactly once.
C10_ChunksAppliedInArrivalOrder ==
    /\ IsPrefix(applied, sent)
    /\ \A s \in Streams : IsPrefix(ChunksOf(sent, s), read_log[s])
    /\ (Pinned /\ loop_exit # "error") => pushed = BytesOf(applied)
    /\ (~Pinned /\ loop_exit # "error") =>
          /\ real_out = BytesOf(SelectSeq(applied, LAMBDA m : m.stream = "Stdout"))
          /\ real_err = BytesOf(SelectSeq(applied, LAMBDA m : m.stream = "Stderr"))
    /\ loop_exit = "closed" =>
          /\ applied = sent
          /\ \A s \in Streams : reader[s] = "ok" => ChunksOf(applied, s) = read_log[s]

\* The loop ended on the closed channel after two different chunks, one from
\* each stream, were applied to the renderer.
C10_Witness ==
    /\ Pinned
    /\ loop_exit = "closed"
    /\ Len(applied) = 2
    /\ applied[1].stream # applied[2].stream
    /\ applied[1].chunk # applied[2].chunk
    /\ \A s \in Streams : reader[s] = "ok"

\* The child has exited; both of its streams are closed with it.
ChildGone ==
    /\ child_status \in {"exit_zero", "exit_nonzero"}
    /\ \A s \in Streams : ~child_open[s]

\* C11: under fair scheduling, once the child has closed both streams and
\* exited, both reader tasks end and the function returns, its consumer loop
\* over and its receiver dropped; and the loop never ends on a closed
\* channel while a reader task is still running or a sent message is still
\* in the channel.
C11_RunTerminates ==
    /\ [](loop_exit = "closed" =>
            /\ \A s \in Streams : reader[s] \in {"ok", "err"}
            /\ applied = sent)
    /\ (ChildGone ~> (/\ \A s \in Streams : reader[s] \in {"ok", "err"}
                      /\ run_pc = "returned"
                      /\ ~rx_open))

\* A run whose child wrote to both streams and exited: the readers ended at
\* end of stream, the loop ended on the closed channel and the function
\* returned the child's status.
C11_Witness ==
    /\ ChildGone
    /\ \A s \in Streams : reader[s] = "ok" /\ read_log[s] # <<>>
    /\ loop_exit = "closed"
    /\ run_pc = "returned"
    /\ run_result[1].ok

\* The label await_reader_task is given for a stream (lines 200-201).
Label(s) == IF s = "Stdout" THEN "stdout" ELSE "stderr"

\* The function got past its consumer loop and returned.
ReturnedAfterLoop ==
    /\ run_pc = "returned"
    /\ loop_exit = "closed"
    /\ run_result[1].what \notin {"finish", "flush"}

\* C12: when a read on a stream failed and the function returns after its
\* consumer loop, it returns an error labeled with a stream whose read
\* failed, and both reader tasks have been awaited by then, whichever of the
\* two streams failed.
C12_ReaderFailureLabelledOtherAwaited ==
    (ReturnedAfterLoop /\ \E s \in Streams : reader[s] = "err" /\ s \in awaited) =>
        /\ ~run_result[1].ok
        /\ \E s \in Streams : reader[s] = "err" /\ run_result[1].what = Label(s)
        /\ awaited = Streams

\* C13: the child is awaited (line 203) only after the consumer loop has
\* ended on the closed channel and both reader tasks have been awaited, and
\* the run's success value is true exactly when the child exited with
\* status zero.
C13_ChildAwaitedLast ==
    LET waiting == run_pc = "wait_child"
        waited == run_pc = "returned" /\ run_result[1].ok
    IN  /\ (waiting \/ waited) =>
              /\ loop_exit = "closed"
              /\ awaited = Streams
              /\ renderer = <<>>
        /\ waited =>
              /\ run_codex(run_result[1]).ok
              /\ run_codex(run_result[1]).val = (child_status = "exit_zero")
        /\ (run_pc = "returned" /\ ~run_result[1].ok) => ~run_codex(run_result[1]).ok

\* A run that applied a chunk and whose child exited with a non-zero status:
\* the success value is false.
C13_Witness ==
    /\ run_pc = "returned"
    /\ run_result[1].ok
    /\ child_status = "exit_nonzero"
    /\ run_codex(run_result[1]) = [ok |-> TRUE, val |-> FALSE]
    /\ applied # <<>>

\* The bytes of a sequence of chunks, in order.
RECURSIVE Concat(_)
Concat(chunks) ==
    IF chunks = <<>> THEN <<>> ELSE Head(chunks) \o Concat(Tail(chunks))

\* C14: when stdout is not a terminal no renderer is constructed and no
\* control sequence or frame is written; while no write has failed, the real
\* stdout holds exactly the chunks tagged Stdout that arrived, in arrival
\* order, and the real stderr those tagged Stderr; and when the loop has
\* ended, each real stream holds, byte for byte, what its reader read.
C14_RawPassthrough ==
    ~is_terminal =>
        /\ renderer = <<>>
        /\ ~hid_cursor
        /\ cursor = "visible"
        /\ last_op.op = "none"
        /\ pushed = <<>>
        /\ loop_exit # "error" =>
              /\ real_out = Concat(ChunksOf(applied, "Stdout"))
              /\ real_err = Concat(ChunksOf(applied, "Stderr"))
        /\ loop_exit = "closed" =>
              /\ real_out = Concat(ChunksOf(sent, "Stdout"))
              /\ real_err = Concat(ChunksOf(sent, "Stderr"))
              /\ reader["Stdout"] = "ok" => real_out = Concat(read_log["Stdout"])
              /\ reader["Stderr"] = "ok" => real_err = Concat(read_log["Stderr"])

\* A run with a header, not on a terminal, whose child wrote a chunk with a
\* carriage return to stdout and a chunk to stderr: both came out raw.
C14_Witness ==
    /\ ~is_terminal
    /\ pinned_header # <<>>
    /\ loop_exit = "closed"
    /\ real_out = <<66, CR>>
    /\ real_err = <<65>>
    /\ run_pc = "returned"
    /\ run_result[1].ok

---------------------------------------------------------------------------
(* Claims about the redraw, checked under SpecRender.                      *)

\* The entries a redraw chooses from: the retained completed lines, then the
\* partial line when it is not empty.
BodyEntries ==
    IF renderer[1].current_line # <<>>
    THEN Append(renderer[1].output_lines, renderer[1].current_line)
    ELSE renderer[1].output_lines

\* rows - header_line_count, saturating at zero, at the last redraw.
BodyRows ==
    LET h == Len(renderer[1].header_lines)
        rows == term_size[1].rows
    IN  IF rows > h THEN rows - h ELSE 0

\* C15: a redraw writes every header line, then the last body_rows of the
\* entries (the completed lines, then the non-empty partial line) in order,
\* then blank lines up to body_rows; with body_rows = 0 it writes no body
\* line.
C15_BodyIsTailWindow ==
    (renderer # <<>> /\ last_op.rendered) =>
        LET r == renderer[1]
            h == Len(r.header_lines)
            cols == term_size[1].cols
            n == Len(BodyEntries)
            shown == Min({n, BodyRows})
        IN  /\ Len(frame) = h + BodyRows
            /\ \A i \in 1..h : frame[i] = fit_terminal_line(r.header_lines[i], cols)
            /\ \A j \in 1..shown :
                  frame[h + j] = fit_terminal_line(BodyEntries[n - shown + j], cols)
            /\ \A j \in (shown + 1)..BodyRows : frame[h + j] = <<>>

\* A redraw with more entries than body rows, whose first body_rows entries
\* differ from its last body_rows.
C15_Witness ==
    /\ renderer # <<>>
    /\ last_op = [op |-> "push_chunk", rendered |-> TRUE]
    /\ BodyRows > 0
    /\ Len(BodyEntries) > BodyRows
    /\ SubSeq(BodyEntries, 1, BodyRows)
          # SubSeq(BodyEntries, Len(BodyEntries) - BodyRows + 1, Len(BodyEntries))
    /\ renderer[1].current_line # <<>>

---------------------------------------------------------------------------
(* Claims about fit_terminal_line, checked under SpecFit.                  *)

\* A run of `n` filler characters ('.').
Filler(n) == [i \in 1..n |-> 46]

\* C16 as stated: the clamped line has at most cols characters; a line of
\* at most cols characters is returned unchanged; a longer line with
\* cols > 3 becomes its first cols-3 characters and the ellipsis; and
\* whenever cols <= 3 the result is cols filler characters.
C16_FitAsStated ==
    ret # <<>> =>
        LET line == arg_s
            cols == arg_n
            out == ret[1]
        IN  /\ Len(out) <= cols
            /\ Len(line) <= cols => out = line
            /\ (Len(line) > cols /\ cols > 3) =>
                  out = SubSeq(line, 1, cols - 3) \o <<46, 46, 46>>
            /\ cols <= 3 => out = Filler(cols)

\* C16, amended: as stated, but only a line longer than cols degrades to
\* cols filler characters when cols <= 3; a line that fits is unchanged
\* there too.
C16_FitTerminalLine ==
    ret # <<>> =>
        LET line == arg_s
            cols == arg_n
            out == ret[1]
        IN  /\ Len(out) <= cols
            /\ Len(line) <= cols => out = line
            /\ (Len(line) > cols /\ cols > 3) =>
                  /\ out = SubSeq(line, 1, cols - 3) \o <<46, 46, 46>>
                  /\ Len(out) = cols
            /\ (Len(line) > cols /\ cols <= 3) => out = Filler(cols)

\* A line of two characters that fits a terminal of 3 columns was returned
\* unchanged.
C16_Witness ==
    /\ ret # <<>>
    /\ Len(arg_s) = 2
    /\ arg_n = 3
    /\ ret[1] = arg_s

---------------------------------------------------------------------------
(* Claims about truncate_display, checked under SpecTruncate.  len is      *)
(* str::len, the length in bytes.                                          *)

\* C17: for every string s and limit m >= 3, truncate_display(s, m) returns
\* s unchanged when len(s) <= m, and otherwise a string of length exactly m
\* whose first m-3 characters are the first m-3 characters of s and whose
\* last 3 characters are the ellipsis.
C17_TruncateLongLimit ==
    (ret # <<>> /\ arg_n >= 3) =>
        LET s == arg_s
            m == arg_n
            out == ret[1].val
        IN  /\ ~ret[1].panic
            /\ ByteLen(s) <= m => out = s
            /\ ByteLen(s) > m =>
                  /\ ByteLen(out) = m
                  /\ SubSeq(out, 1, m - 3) = SubSeq(s, 1, m - 3)
                  /\ SubSeq(out, Len(out) - 2, Len(out)) = <<46, 46, 46>>

\* C18 as stated: for every string s and limit m < 3, truncate_display(s, m)
\* returns exactly the ellipsis.
C18_TruncateShortLimitAsStated ==
    (ret # <<>> /\ arg_n < 3) => (~ret[1].panic /\ ret[1].val = <<46, 46, 46>>)

\* C18, amended: for a limit m < 3, truncate_display(s, m) never panics; it
\* returns exactly the ellipsis for every s longer than m bytes, and s
\* unchanged for every s of at most m bytes.
C18_TruncateShortLimit ==
    (ret # <<>> /\ arg_n < 3) =>
        /\ ~ret[1].panic
        /\ ByteLen(arg_s) > arg_n => ret[1].val = <<46, 46, 46>>
        /\ ByteLen(arg_s) <= arg_n => ret[1].val = arg_s

\* A string of 3 bytes that begins with a two-byte character, truncated to
\* the limit 2: exactly the ellipsis.
C18_Witness ==
    /\ ret # <<>>
    /\ arg_n = 2
    /\ arg_s = <<233, 97>>
    /\ ret[1] = [panic |-> FALSE, val |-> <<46, 46, 46>>]

---------------------------------------------------------------------------
(* Claims about main, checked under SpecMain.                              *)

\* C19: when main exits past its argument checks, the exit is success
\* exactly when every recorded result has success = true, and otherwise the
\* failure count reported is the number of results with success = false; a
\* loop count of 0 or an empty prompt list exits with success and a
\* nothing-to-do message before any run starts.
C19_ExitReflectsResults ==
    (main_pc = "exited" /\ message.kind # "bad_work_dir") =>
        /\ exit_code = "SUCCESS" <=> (\A i \in 1..Len(results) : results[i][3])
        /\ exit_code # "SUCCESS" =>
              message = [kind |-> "failed",
                         n |-> Cardinality({i \in 1..Len(results) : ~results[i][3]})]
        /\ (loops = 0 \/ prompts = <<>>) =>
              /\ exit_code = "SUCCESS"
              /\ message.kind \in {"loops_zero", "no_prompts"}
              /\ invocations = <<>>
              /\ results = <<>>

---------------------------------------------------------------------------
(* Claims about push_chunk, checked under SpecRender.                      *)

\* C20 as stated: every call of push_chunk, for every chunk, triggers a
\* redraw, a chunk wholly consumed by the sanitizer included.
C20_EveryPushChunkRedraws == last_op.op = "push_chunk" => last_op.rendered

\* C20, amended: every call of push_chunk runs the chunk through the
\* sanitizer, whose state it keeps; it redraws, from the renderer's new
\* state, exactly when the sanitizer emitted at least one byte, and when the
\* chunk was wholly consumed it redraws nothing and leaves the lines as they
\* were.
C20_PushChunkRedrawsWhenBytesSurvive ==
    [][ (renderer # <<>> /\ renderer' # <<>> /\ last_op'.op = "push_chunk") =>
          LET chunk == SubSeq(pushed', Len(pushed) + 1, Len(pushed'))
              san == sanitize_chunk(renderer[1].ansi_state, chunk)
          IN  /\ pushed' = pushed \o chunk
              /\ renderer'[1].ansi_state = san.state
              /\ last_op'.rendered <=> san.out # <<>>
              /\ last_op'.rendered =>
                    frame' = render(renderer'[1], term_size'[1].rows, term_size'[1].cols)
              /\ ~last_op'.rendered =>
                    /\ frame' = frame
                    /\ term_size' = term_size
                    /\ renderer'[1].output_lines = renderer[1].output_lines
                    /\ renderer'[1].current_line = renderer[1].current_line
      ]_vars

\* A chunk that left the parser inside an escape sequence was pushed after a
\* line was drawn, and no redraw followed it.
C20_Witness ==
    /\ renderer # <<>>
    /\ last_op = [op |-> "push_chunk", rendered |-> FALSE]
    /\ renderer[1].ansi_state = "Csi"
    /\ renderer[1].current_line # <<>>
    /\ Len(pushed) >= 3

---------------------------------------------------------------------------
(* Claims about the line buffer, checked under SpecScroll.                 *)

\* What is left in the partial line after `chars` are fed to a buffer whose
\* partial line is `cur`: the text after the last newline.
PartialAfter(cur, chars) ==
    LET P == {i \in 1..Len(chars) : chars[i] = LF}
    IN  IF P = {} THEN cur \o chars
        ELSE LET last == CHOOSE i \in P : \A q \in P : q <= i
             IN  SubSeq(chars, last + 1, Len(chars))

\* The retained lines are a contiguous suffix of `all`, in the same order.
IsSuffix(lines, all) ==
    /\ Len(lines) <= Len(all)
    /\ lines = SubSeq(all, Len(all) - Len(lines) + 1, Len(all))

\* C21: each sanitized newline closes the partial line and appends it, even
\* when empty, as the newest completed line; every other character is
\* appended to the partial line; finish closes the partial line only when it
\* is non-empty and leaves it empty; and the retained completed lines are
\* always a contiguous suffix, in completion order, of all lines ever
\* completed.
C21_LineBuffer ==
    /\ [](renderer # <<>> =>
            /\ IsSuffix(renderer[1].output_lines, completed)
            /\ last_op.op = "finish" => renderer[1].current_line = <<>>)
    /\ [][ (renderer # <<>> /\ renderer' # <<>>) =>
            LET r == renderer[1]
                r2 == renderer'[1]
                chunk == SubSeq(pushed', Len(pushed) + 1, Len(pushed'))
                text == from_utf8_lossy(sanitize_chunk(r.ansi_state, chunk).out)
                newlines == Cardinality({i \in 1..Len(text) : text[i] = LF})
            IN  /\ pushed' # pushed =>
                      /\ r2.current_line = PartialAfter(r.current_line, text)
                      /\ Len(completed') = Len(completed) + newlines
                      /\ newlines > 0 =>
                            /\ r2.output_lines # <<>>
                            /\ r2.output_lines[Len(r2.output_lines)]
                                  = completed'[Len(completed')]
                      /\ newlines = 0 => r2.output_lines = r.output_lines
                /\ (pushed' = pushed /\ last_op'.op = "finish") =>
                      IF r.current_line # <<>>
                      THEN /\ completed' = Append(completed, r.current_line)
                           /\ r2.output_lines[Len(r2.output_lines)] = r.current_line
                      ELSE /\ completed' = completed
                           /\ r2.output_lines = r.output_lines
       ]_vars

\* A buffer at its cap took a newline on an empty partial line, then a
\* character, then finish: the empty line and the closed partial line are
\* the two newest retained lines, and older lines were evicted.
C21_Witness ==
    /\ renderer # <<>>
    /\ last_op.op = "finish"
    /\ Len(completed) > MAX_RENDERED_OUTPUT_LINES
    /\ Len(renderer[1].output_lines) = MAX_RENDERED_OUTPUT_LINES
    /\ renderer[1].output_lines[MAX_RENDERED_OUTPUT_LINES] = <<65>>
    /\ renderer[1].output_lines[MAX_RENDERED_OUTPUT_LINES - 1] = <<>>
    /\ renderer[1].current_line = <<>>

---------------------------------------------------------------------------
(* Claims about the parser's states, checked under SpecSanStep.            *)

\* C22: a byte consumed in a state other than Normal emits nothing; inside
\* a CSI sequence every byte outside 0x40..0x7e (newlines, tabs and digits
\* included) keeps the parser in Csi and a byte in 0x40..0x7e returns it to
\* Normal; inside an OSC sequence the parser returns to Normal on BEL, or on
\* the backslash that follows an ESC, and on nothing else.
C22_NothingEmittedInsideSequence ==
    (last_byte # <<>> /\ prev_state # "Normal") =>
        LET b == last_byte[1]
        IN  /\ emitted = <<>>
            /\ prev_state = "Csi" =>
                  ansi_state = IF b \in 64..126 THEN "Normal" ELSE "Csi"
            /\ prev_state = "Osc" =>
                  ansi_state = IF b = 7 THEN "Normal"
                               ELSE IF b = 27 THEN "OscEsc" ELSE "Osc"
            /\ prev_state = "OscEsc" =>
                  ansi_state = IF b = 92 THEN "Normal" ELSE "Osc"
            /\ prev_state = "Esc" => ansi_state \in {"Csi", "Osc", "Normal"}

\* A newline was fed inside a CSI sequence: it was discarded and the parser
\* stayed in Csi.
C22_Witness ==
    /\ prev_state = "Csi"
    /\ last_byte = <<LF>>
    /\ emitted = <<>>
    /\ ansi_state = "Csi"

---------------------------------------------------------------------------
(* Claims about chunking, checked under SpecRender.                        *)

\* C23: for ASCII input and before finish, the renderer's parser state,
\* completed lines and partial line after any succession of chunks are those
\* of a fresh renderer to which the same bytes were pushed as one chunk.
C23_ChunkingDoesNotMatter ==
    (renderer # <<>> /\ cursor = "hidden" /\ \A i \in 1..Len(pushed) : pushed[i] < 128) =>
        LET fresh == [header_lines |-> renderer[1].header_lines, output_lines |-> <<>>,
                      current_line |-> <<>>, ansi_state |-> "Normal"]
            one == IF pushed = <<>> THEN fresh ELSE push_chunk(fresh, pushed).renderer
        IN  /\ renderer[1].ansi_state = one.ansi_state
            /\ renderer[1].output_lines = one.output_lines
            /\ renderer[1].current_line = one.current_line

\* The bytes A ESC [ A were pushed in chunks of at most two bytes, so the
\* escape sequence was cut; the last chunk was wholly consumed.
C23_Witness ==
    /\ renderer # <<>>
    /\ cursor = "hidden"
    /\ pushed = <<65, ESC, LBRACKET, 65>>
    /\ last_op = [op |-> "push_chunk", rendered |-> FALSE]
    /\ renderer[1].ansi_state = "Normal"
    /\ renderer[1].current_line = <<65>>

====
